---------------------------- MODULE Spec2Model ----------------------------
(***************************************************************************)
(* A model of app.py, the Streamlit coaching dashboard: the keyword        *)
(* classifier simulate_ai_analysis, the cached generator load_sample_data, *)
(* and the script main, which Streamlit runs from top to bottom once per   *)
(* user interaction (a view change, a widget edit or a button click).      *)
(*                                                                         *)
(* Python values are encoded as follows.  A str that the code inspects     *)
(* (the transcript, the keywords) is a sequence of one-character strings;  *)
(* a str that is only passed around (names, labels, messages) is a TLA+    *)
(* string.  None / "not there" is the empty sequence <<>> and a present    *)
(* value x is <<x>>.  A quotient k/n is the pair <<k, n>>; the float       *)
(* comparisons on it are done by cross-multiplication (k, n <= 50, so the  *)
(* correctly rounded double k/n compares with the literals 0.2, 0.3 and    *)
(* 0.6 exactly as the rational does).  The feedback f-string is the record *)
(* of the values interpolated into it.  The file needs Python >= 3.12: the *)
(* f-string at lines 48-64 has a backslash in an expression part.          *)
(***************************************************************************)
EXTENDS Integers, Sequences, FiniteSets

VARIABLES
    cache,               \* st.cache_data store of load_sample_data: <<>> or <<batch>>
    agents_df,           \* main's agents_df in the latest run (<<>> before any run)
    interactions_df,     \* main's interactions_df in the latest run
    app_mode,            \* sidebar selectbox "Choose a view"
    interaction_type,    \* selectbox "Select Interaction Type"
    transcript,          \* text_area "Transcript"
    agent_name,          \* selectbox "Select Agent" (Interaction Analysis)
    selected_agent,      \* selectbox "Select Agent" / "Select Agent to Coach"
    clicked,             \* the button whose click triggered the latest run, or "None"
    buttons,             \* the buttons the latest run rendered
    shown,               \* st.success / st.info / st.markdown outputs of the latest run
    analysis,            \* <<>> or <<result of simulate_ai_analysis>> of the latest run
    metrics,             \* st.metric values of the latest run
    coaching_candidates, \* the list built by the Coaching Hub in the latest run
    exception            \* <<>> or <<name>> of the exception that ended the latest run

vars == <<cache, agents_df, interactions_df, app_mode, interaction_type, transcript,
          agent_name, selected_agent, clicked, buttons, shown, analysis, metrics,
          coaching_candidates, exception>>

-----------------------------------------------------------------------------
(* Bounds of the model.                                                    *)

\* rows load_sample_data generates: range(50) at line 80, scaled down
NumInteractions == 1

\* fragments concatenated into a transcript handed to the classifier
MaxFragments == 2

\* rows of the interaction table handed to the aggregator on its own
MaxRows == 5

-----------------------------------------------------------------------------
(* str.lower and the substring test `word in text`.                        *)

UpperCase == <<"A","B","C","D","E","F","G","H","I","J","K","L","M",
               "N","O","P","Q","R","S","T","U","V","W","X","Y","Z">>

LowerCase == <<"a","b","c","d","e","f","g","h","i","j","k","l","m",
               "n","o","p","q","r","s","t","u","v","w","x","y","z">>

\* one character of str.lower(): cased letters map to lower case, all else is kept
lower_char(c) ==
    IF \E i \in DOMAIN UpperCase : UpperCase[i] = c
    THEN LowerCase[CHOOSE i \in DOMAIN UpperCase : UpperCase[i] = c]
    ELSE c

\* transcript.lower()
str_lower(s) == [i \in 1..Len(s) |-> lower_char(s[i])]

\* Python's `word in text` on str: word occurs as a contiguous substring
str_in(word, text) ==
    \E i \in 1..(Len(text) - Len(word) + 1) :
        \A k \in 1..Len(word) : text[i + k - 1] = word[k]

\* the keyword list of line 26
negative_words ==
    << <<"f","r","u","s","t","r","a","t">>,
       <<"a","n","g","r","y">>,
       <<"u","p","s","e","t">>,
       <<"d","i","s","a","p","p","o","i","n","t">>,
       <<"u","n","f","a","i","r">>,
       <<"c","o","m","p","l","a","i","n","t">> >>

\* the keyword list of line 33
positive_words ==
    << <<"t","h","a","n","k">>,
       <<"a","p","p","r","e","c","i","a","t","e">>,
       <<"h","e","l","p","f","u","l">>,
       <<"g","r","e","a","t">>,
       <<"p","e","r","f","e","c","t">>,
       <<"a","w","e","s","o","m","e">> >>

\* any(word in text for word in words)
any_word_in(words, text) == \E j \in DOMAIN words : str_in(words[j], text)

-----------------------------------------------------------------------------
(* simulate_ai_analysis, lines 19-66.                                      *)

\* the branch of lines 26-31
template_negative ==
    [sentiment |-> "Negative",
     issues |-> <<"Customer frustration not adequately addressed",
                  "Empathy statements missing",
                  "Opportunity to de-escalate was missed">>,
     strengths |-> <<"Professional tone maintained",
                     "Accurate information provided",
                     "Good product knowledge">>,
     coaching_focus |-> "Practice empathy statements and de-escalation techniques",
     example_phrase |-> "\"I understand why that would be frustrating. Let me see what I can do to help resolve this for you.\""]

\* the branch of lines 33-38
template_positive ==
    [sentiment |-> "Positive",
     issues |-> <<"Opportunity to upsell missed",
                  "Could have asked for feedback or review">>,
     strengths |-> <<"Excellent customer service",
                     "Strong problem resolution",
                     "Positive customer feedback received">>,
     coaching_focus |-> "Upselling techniques and feedback collection",
     example_phrase |-> "\"I'm so glad I could help! Would you be interested in our premium plan that prevents this issue in the future?\""]

\* the branch of lines 40-45
template_neutral ==
    [sentiment |-> "Neutral",
     issues |-> <<"Conversation could have been more engaging",
                  "Missing opportunity to build rapport",
                  "Proactive support could be improved">>,
     strengths |-> <<"Efficient handling of inquiry",
                     "All procedures followed correctly",
                     "Good documentation of the issue">>,
     coaching_focus |-> "Building customer rapport and proactive engagement",
     example_phrase |-> "\"Is there anything else I can help you with today? I'm here to assist!\""]

\* lines 47-66: the feedback text and the returned tuple, from the chosen branch
analysis_result(t, interaction_type_, agent_name_) ==
    [feedback |-> [agent |-> agent_name_,
                   interaction_type |-> interaction_type_,
                   sentiment |-> t.sentiment,
                   strengths |-> t.strengths,
                   issues |-> t.issues,
                   coaching_focus |-> t.coaching_focus,
                   example_phrase |-> t.example_phrase],
     sentiment |-> t.sentiment,
     strengths |-> t.strengths,
     issues |-> t.issues]

\* Faulty variant: the positive keywords are tested before the negative ones.
simulate_ai_analysis_positive_first(transcript_, interaction_type_, agent_name_) ==
    LET transcript_lower == str_lower(transcript_)
    IN  IF any_word_in(positive_words, transcript_lower)
        THEN analysis_result(template_positive, interaction_type_, agent_name_)
        ELSE IF any_word_in(negative_words, transcript_lower)
        THEN analysis_result(template_negative, interaction_type_, agent_name_)
        ELSE analysis_result(template_neutral, interaction_type_, agent_name_)

\* Faulty variant: the keywords are matched against the transcript as typed.
simulate_ai_analysis_case_sensitive(transcript_, interaction_type_, agent_name_) ==
    LET transcript_lower == transcript_
    IN  IF any_word_in(negative_words, transcript_lower)
        THEN analysis_result(template_negative, interaction_type_, agent_name_)
        ELSE IF any_word_in(positive_words, transcript_lower)
        THEN analysis_result(template_positive, interaction_type_, agent_name_)
        ELSE analysis_result(template_neutral, interaction_type_, agent_name_)

\* Faulty variant: a transcript that matches nothing gets no label.
simulate_ai_analysis_no_default(transcript_, interaction_type_, agent_name_) ==
    LET transcript_lower == str_lower(transcript_)
    IN  IF any_word_in(negative_words, transcript_lower)
        THEN analysis_result(template_negative, interaction_type_, agent_name_)
        ELSE IF any_word_in(positive_words, transcript_lower)
        THEN analysis_result(template_positive, interaction_type_, agent_name_)
        ELSE analysis_result([template_neutral EXCEPT !.sentiment = "Unknown"],
                             interaction_type_, agent_name_)

\* Faulty variant: a negative transcript that also praises keeps the praise's strengths.
simulate_ai_analysis_mixed_template(transcript_, interaction_type_, agent_name_) ==
    LET transcript_lower == str_lower(transcript_)
    IN  IF any_word_in(negative_words, transcript_lower)
        THEN analysis_result(
                 IF any_word_in(positive_words, transcript_lower)
                 THEN [template_negative EXCEPT !.strengths = template_positive.strengths]
                 ELSE template_negative,
                 interaction_type_, agent_name_)
        ELSE IF any_word_in(positive_words, transcript_lower)
        THEN analysis_result(template_positive, interaction_type_, agent_name_)
        ELSE analysis_result(template_neutral, interaction_type_, agent_name_)

\* Faulty variant: an e-mail with no negative keyword is still read as a complaint.
simulate_ai_analysis_by_type(transcript_, interaction_type_, agent_name_) ==
    LET transcript_lower == str_lower(transcript_)
    IN  IF any_word_in(negative_words, transcript_lower) \/ interaction_type_ = "Email"
        THEN analysis_result(template_negative, interaction_type_, agent_name_)
        ELSE IF any_word_in(positive_words, transcript_lower)
        THEN analysis_result(template_positive, interaction_type_, agent_name_)
        ELSE analysis_result(template_neutral, interaction_type_, agent_name_)

\* simulate_ai_analysis(transcript, interaction_type, agent_name)
simulate_ai_analysis(transcript_, interaction_type_, agent_name_) ==
    LET transcript_lower == str_lower(transcript_)
    IN  IF any_word_in(negative_words, transcript_lower)
        THEN analysis_result(template_negative, interaction_type_, agent_name_)
        ELSE IF any_word_in(positive_words, transcript_lower)
        THEN analysis_result(template_positive, interaction_type_, agent_name_)
        ELSE analysis_result(template_neutral, interaction_type_, agent_name_)

-----------------------------------------------------------------------------
(* load_sample_data, lines 69-97.                                          *)

\* the roster of lines 71-77; avg_rating in tenths
agents ==
    << [id |-> 1, name |-> "Sarah Johnson", team |-> "Customer Support", tenure |-> 18, avg_rating |-> 42],
       [id |-> 2, name |-> "Michael Chen", team |-> "Technical Support", tenure |-> 6, avg_rating |-> 38],
       [id |-> 3, name |-> "Jessica Williams", team |-> "Sales", tenure |-> 12, avg_rating |-> 45],
       [id |-> 4, name |-> "David Smith", team |-> "Customer Support", tenure |-> 24, avg_rating |-> 41],
       [id |-> 5, name |-> "Emily Rodriguez", team |-> "Technical Support", tenure |-> 3, avg_rating |-> 35] >>

\* the values np.random.choice draws from at lines 83 and 93
Sentiments == {"Positive", "Neutral", "Negative"}

ResolutionStatuses == {"Resolved", "Escalated", "Pending"}

\* the dict appended at lines 85-95 for loop index i (0-based) and the draws of
\* lines 81, 83 and 93; type, date, duration and topic are drawn too but no
\* statistic modelled here reads them
interaction(i, agent, sentiment, resolution_status) ==
    [id |-> i + 1000,
     agent_id |-> agent.id,
     agent_name |-> agent.name,
     customer_sentiment |-> sentiment,
     resolution_status |-> resolution_status]

\* every outcome of the draws of one loop iteration
Draws == (DOMAIN agents) \X Sentiments \X ResolutionStatuses

\* every (agents, interactions) pair one execution of the body can return
generate_batches(n) ==
    { [agents |-> agents,
       interactions |-> [k \in 1..n |->
           interaction(k - 1, agents[d[k][1]], d[k][2], d[k][3])]] :
      d \in [1..n -> Draws] }

\* Faulty variant: no @st.cache_data, the body runs on every call.
load_sample_data_uncached == generate_batches(NumInteractions)

\* Faulty variant: the agent of a row is drawn from a longer roster than the one returned.
load_sample_data_stale_roster ==
    IF cache = <<>>
    THEN generate_batches(NumInteractions) \cup
         { [b EXCEPT !.interactions[1].agent_id = Len(agents) + 1] :
             b \in generate_batches(NumInteractions) }
    ELSE {cache[1]}

\* the values a call of load_sample_data() can return in the current state:
\* @st.cache_data runs the body on the first call only
load_sample_data ==
    IF cache = <<>> THEN generate_batches(NumInteractions) ELSE {cache[1]}

-----------------------------------------------------------------------------
(* Table helpers and arithmetic of the views.                              *)

\* df[df[column] == value]
rows_where(df, column, value) == SelectSeq(df, LAMBDA r : r[column] = value)

RECURSIVE sum_column(_, _)
\* df[column].sum()
sum_column(df, column) ==
    IF df = <<>> THEN 0 ELSE Head(df)[column] + sum_column(Tail(df), column)

ZeroDivisionError == <<"ZeroDivisionError">>

\* "N/A", the text shown for a rate that is not computed
NA == <<"N/A">>

\* Python's a / b on ints: the quotient, or ZeroDivisionError raised
truediv(a, b) == IF b = 0 THEN ZeroDivisionError ELSE <<a, b>>

\* round-half-even of a / b for a >= 0, b > 0: what the :.1f format does to the
\* last digit it keeps (a tie a/b = m + 1/2 is exact in binary, so it is a tie
\* for the double too)
round_half_even(a, b) ==
    LET q == a \div b
        r == a % b
    IN  IF 2 * r > b THEN q + 1
        ELSE IF 2 * r < b THEN q
        ELSE IF q % 2 = 0 THEN q ELSE q + 1

\* f"{rate*100:.1f}%": the percentage in tenths of a percent, tagged "%"
format_pct(rate) == <<"%", round_half_even(1000 * rate[1], rate[2])>>

\* rate > num/den and rate < num/den for the float literals 0.2, 0.3, 0.6
rate_gt(rate, num, den) == rate[1] * den > num * rate[2]

rate_lt(rate, num, den) == rate[1] * den < num * rate[2]

\* what one run of a view leaves on the page
no_output ==
    [metrics |-> <<>>, shown |-> {}, buttons |-> {}, analysis |-> <<>>,
     coaching_candidates |-> <<>>, exception |-> <<>>]

\* st.button(label) in the run triggered by a click on clicked_ ("None" for a
\* run triggered otherwise): True only in the run that the click on this very
\* button triggered
st_button(label, clicked_) == clicked_ = label

-----------------------------------------------------------------------------
(* Dashboard, lines 113-158 (the charts read the tables and draw).         *)

dashboard(agents_df_, interactions_df_) ==
    LET total == [name |-> "Total Agents", value |-> Len(agents_df_)]
        rating == [name |-> "Average Rating",
                   value |-> round_half_even(sum_column(agents_df_, "avg_rating"),
                                             Len(agents_df_))]
        resolved == Len(rows_where(interactions_df_, "resolution_status", "Resolved"))
        resolution == truediv(resolved, Len(interactions_df_))
        negative == Len(rows_where(interactions_df_, "customer_sentiment", "Negative"))
        negative_rate == truediv(negative, Len(interactions_df_))
    IN  IF resolution = ZeroDivisionError
        THEN [no_output EXCEPT !.metrics = <<total, rating>>,
                               !.exception = ZeroDivisionError]
        ELSE IF negative_rate = ZeroDivisionError
        THEN [no_output EXCEPT
                !.metrics = <<total, rating,
                              [name |-> "Resolution Rate", value |-> format_pct(resolution)]>>,
                !.exception = ZeroDivisionError]
        ELSE [no_output EXCEPT
                !.metrics = <<total, rating,
                              [name |-> "Resolution Rate", value |-> format_pct(resolution)],
                              [name |-> "Negative Sentiment", value |-> format_pct(negative_rate)]>>]

-----------------------------------------------------------------------------
(* Interaction Analysis, lines 161-221.                                    *)

SampleCall ==
    <<"C","u","s","t","o","m","e","r",":"," ","I","'","m"," ","c","a","l","l","i","n","g"," ","a","b","o","u",
      "t"," ","m","y"," ","b","i","l","l",","," ","i","t"," ","s","e","e","m","s"," ","h","i","g","h","e","r",
      " ","t","h","a","n"," ","u","s","u","a","l",".","\n","A","g","e","n","t",":"," ","I"," ","c","a","n",
      " ","h","e","l","p"," ","w","i","t","h"," ","t","h","a","t","."," ","C","a","n"," ","y","o","u"," ","p",
      "r","o","v","i","d","e"," ","y","o","u","r"," ","a","c","c","o","u","n","t"," ","n","u","m","b","e","r",
      "?","\n","C","u","s","t","o","m","e","r",":"," ","I","t","'","s"," ","1","2","3","4","5","."," ","I",
      " ","j","u","s","t"," ","d","o","n","'","t"," ","u","n","d","e","r","s","t","a","n","d"," ","w","h","y",
      " ","i","t","'","s"," ","s","o"," ","h","i","g","h"," ","t","h","i","s"," ","m","o","n","t","h",".",
      "\n","A","g","e","n","t",":"," ","I"," ","s","e","e"," ","y","o","u","r"," ","a","c","c","o","u","n",
      "t","."," ","Y","o","u"," ","h","a","v","e"," ","a","n"," ","a","d","d","i","t","i","o","n","a","l"," ",
      "d","a","t","a"," ","c","h","a","r","g","e"," ","f","o","r"," ","e","x","c","e","e","d","i","n","g"," ",
      "y","o","u","r"," ","p","l","a","n"," ","l","i","m","i","t",".","\n","C","u","s","t","o","m","e","r",
      ":"," ","W","h","a","t","?"," ","N","o"," ","o","n","e"," ","t","o","l","d"," ","m","e"," ","I"," ","w",
      "a","s"," ","c","l","o","s","e"," ","t","o"," ","m","y"," ","l","i","m","i","t","!"," ","T","h","i","s",
      " ","i","s"," ","s","o"," ","f","r","u","s","t","r","a","t","i","n","g",".","\n","A","g","e","n","t",
      ":"," ","T","h","e"," ","s","y","s","t","e","m"," ","s","e","n","d","s"," ","a","u","t","o","m","a","t",
      "e","d"," ","a","l","e","r","t","s","."," ","Y","o","u"," ","s","h","o","u","l","d"," ","h","a","v","e",
      " ","r","e","c","e","i","v","e","d"," ","a"," ","t","e","x","t"," ","m","e","s","s","a","g","e",".",
      "\n","C","u","s","t","o","m","e","r",":"," ","I"," ","n","e","v","e","r"," ","g","o","t"," ","a","n",
      "y","t","h","i","n","g","."," ","T","h","i","s"," ","i","s"," ","u","n","f","a","i","r"," ","b","i","l",
      "l","i","n","g"," ","p","r","a","c","t","i","c","e",".","\n","A","g","e","n","t",":"," ","I"," ","c",
      "a","n"," ","s","e","e"," ","t","h","e"," ","a","l","e","r","t"," ","w","a","s"," ","s","e","n","t"," ",
      "t","o"," ","5","5","5","-","1","2","3","4"," ","o","n"," ","t","h","e"," ","1","5","t","h","."," ","W",
      "o","u","l","d"," ","y","o","u"," ","l","i","k","e"," ","t","o"," ","a","d","d"," ","a"," ","d","a","t",
      "a"," ","p","a","c","k"," ","t","o"," ","a","v","o","i","d"," ","f","u","t","u","r","e"," ","o","v","e",
      "r","a","g","e","s","?">>

SampleChat ==
    <<"C","u","s","t","o","m","e","r",":"," ","H","i",","," ","m","y"," ","i","n","t","e","r","n","e","t"," ",
      "h","a","s"," ","b","e","e","n"," ","d","r","o","p","p","i","n","g"," ","f","r","e","q","u","e","n","t",
      "l","y"," ","f","o","r"," ","t","h","e"," ","p","a","s","t"," ","w","e","e","k","\n","A","g","e","n",
      "t",":"," ","H","e","l","l","o","!"," ","I","'","m"," ","s","o","r","r","y"," ","t","o"," ","h","e","a",
      "r"," ","y","o","u","'","r","e"," ","e","x","p","e","r","i","e","n","c","i","n","g"," ","i","s","s","u",
      "e","s","."," ","C","a","n"," ","y","o","u"," ","t","e","l","l"," ","m","e"," ","m","o","r","e"," ","a",
      "b","o","u","t"," ","w","h","a","t","'","s"," ","h","a","p","p","e","n","i","n","g","?","\n","C","u",
      "s","t","o","m","e","r",":"," ","I","t"," ","j","u","s","t"," ","r","a","n","d","o","m","l","y"," ","d",
      "i","s","c","o","n","n","e","c","t","s",","," ","e","s","p","e","c","i","a","l","l","y"," ","d","u","r",
      "i","n","g"," ","v","i","d","e","o"," ","c","a","l","l","s","."," ","V","e","r","y"," ","a","n","n","o",
      "y","i","n","g",".","\n","A","g","e","n","t",":"," ","I"," ","u","n","d","e","r","s","t","a","n","d",
      " ","h","o","w"," ","f","r","u","s","t","r","a","t","i","n","g"," ","t","h","a","t"," ","m","u","s","t",
      " ","b","e","."," ","L","e","t","'","s"," ","r","u","n"," ","a"," ","q","u","i","c","k"," ","d","i","a",
      "g","n","o","s","t","i","c"," ","o","n"," ","y","o","u","r"," ","c","o","n","n","e","c","t","i","o","n",
      ".","\n","C","u","s","t","o","m","e","r",":"," ","O","K",","," ","w","h","a","t"," ","d","o"," ","I",
      " ","n","e","e","d"," ","t","o"," ","d","o","?","\n","A","g","e","n","t",":"," ","F","i","r","s","t",
      ","," ","p","l","e","a","s","e"," ","r","e","s","t","a","r","t"," ","y","o","u","r"," ","m","o","d","e",
      "m"," ","b","y"," ","u","n","p","l","u","g","g","i","n","g"," ","i","t"," ","f","o","r"," ","3","0"," ",
      "s","e","c","o","n","d","s"," ","a","n","d"," ","t","h","e","n"," ","p","l","u","g","g","i","n","g"," ",
      "i","t"," ","b","a","c","k"," ","i","n",".","\n","C","u","s","t","o","m","e","r",":"," ","I","'","v",
      "e"," ","d","o","n","e"," ","t","h","a","t"," ","a","l","r","e","a","d","y"," ","m","u","l","t","i","p",
      "l","e"," ","t","i","m","e","s","."," ","I","t"," ","d","o","e","s","n","'","t"," ","h","e","l","p",".",
      "\n","A","g","e","n","t",":"," ","I"," ","s","e","e","."," ","L","e","t"," ","m","e"," ","c","h","e",
      "c","k"," ","f","o","r"," ","a","n","y"," ","k","n","o","w","n"," ","o","u","t","a","g","e","s"," ","i",
      "n"," ","y","o","u","r"," ","a","r","e","a",".",".",".">>

SampleEmail ==
    <<"S","u","b","j","e","c","t",":"," ","R","e","f","u","n","d"," ","R","e","q","u","e","s","t","\n","\n",
      "D","e","a","r"," ","S","u","p","p","o","r","t"," ","T","e","a","m",",","\n","\n","I"," ","r","e","c",
      "e","n","t","l","y"," ","c","a","n","c","e","l","e","d"," ","m","y"," ","s","u","b","s","c","r","i","p",
      "t","i","o","n"," ","b","u","t"," ","c","o","n","t","i","n","u","e"," ","t","o"," ","b","e"," ","c","h",
      "a","r","g","e","d","."," ","I","'","v","e"," ","s","e","n","t"," ","t","w","o"," ","p","r","e","v","i",
      "o","u","s"," ","e","m","a","i","l","s"," ","a","b","o","u","t"," ","t","h","i","s"," ","i","s","s","u",
      "e"," ","b","u","t"," ","h","a","v","e","n","'","t"," ","r","e","c","e","i","v","e","d"," ","a"," ","r",
      "e","s","o","l","u","t","i","o","n","."," ","T","h","i","s"," ","i","s"," ","c","o","m","p","l","e","t",
      "e","l","y"," ","u","n","a","c","c","e","p","t","a","b","l","e"," ","a","n","d"," ","i","f"," ","n","o",
      "t"," ","r","e","s","o","l","v","e","d"," ","i","m","m","e","d","i","a","t","e","l","y",","," ","I"," ",
      "w","i","l","l"," ","b","e"," ","f","i","l","i","n","g"," ","a"," ","c","o","m","p","l","a","i","n","t",
      " ","w","i","t","h"," ","t","h","e"," ","B","e","t","t","e","r"," ","B","u","s","i","n","e","s","s"," ",
      "B","u","r","e","a","u",".","\n","\n","P","l","e","a","s","e"," ","p","r","o","c","e","s","s"," ","m",
      "y"," ","r","e","f","u","n","d"," ","i","m","m","e","d","i","a","t","e","l","y"," ","a","n","d"," ","c",
      "o","n","f","i","r","m"," ","w","h","e","n"," ","i","t"," ","h","a","s"," ","b","e","e","n"," ","c","o",
      "m","p","l","e","t","e","d",".","\n","\n","S","i","n","c","e","r","e","l","y",",","\n","F","r","u","s",
      "t","r","a","t","e","d"," ","C","u","s","t","o","m","e","r">>

\* sample_interactions, lines 165-171
sample_interactions == [Call |-> SampleCall, Chat |-> SampleChat, Email |-> SampleEmail]

InteractionTypes == {"Call", "Chat", "Email"}

AnalyzeButton == "Analyze Interaction"

\* the three buttons of lines 200-207 and the message each one's branch shows
NextStepMessage ==
    [b \in {"Save Feedback", "Schedule Coaching Session", "Create Action Plan"} |->
        CASE b = "Save Feedback" -> "Feedback saved to agent profile!"
          [] b = "Schedule Coaching Session" -> "Coaching session scheduled!"
          [] b = "Create Action Plan" -> "Action plan created!"]

NextStepButtons == DOMAIN NextStepMessage

interaction_analysis(interaction_type_, transcript_, agent_name_, clicked_) ==
    IF st_button(AnalyzeButton, clicked_)
    THEN [no_output EXCEPT
            !.analysis = <<simulate_ai_analysis(transcript_, interaction_type_, agent_name_)>>,
            !.buttons = {AnalyzeButton} \cup NextStepButtons,
            !.shown = {"Analysis complete!"} \cup
                      { NextStepMessage[b] : b \in { x \in NextStepButtons : st_button(x, clicked_) } }]
    ELSE [no_output EXCEPT !.buttons = {AnalyzeButton}]

-----------------------------------------------------------------------------
(* Agent Performance, lines 224-268.                                       *)

\* Faulty variant: the rate is computed without the len(...) > 0 test.
rate_or_na_unguarded(count, total) ==
    IF truediv(count, total) = ZeroDivisionError
    THEN ZeroDivisionError
    ELSE format_pct(truediv(count, total))

\* f"{(count/total)*100:.1f}%" if total > 0 else "N/A", lines 240 and 243
rate_or_na(count, total) ==
    IF total > 0 THEN format_pct(truediv(count, total)) ELSE NA

agent_performance(agents_df_, interactions_df_, selected_agent_) ==
    LET agent_data == rows_where(agents_df_, "name", selected_agent_)[1]
        agent_interactions == rows_where(interactions_df_, "agent_name", selected_agent_)
        rating == [name |-> "Average Rating", value |-> agent_data.avg_rating]
        tenure == [name |-> "Tenure (months)", value |-> agent_data.tenure]
        resolved == Len(rows_where(agent_interactions, "resolution_status", "Resolved"))
        resolution == rate_or_na(resolved, Len(agent_interactions))
        negative == Len(rows_where(agent_interactions, "customer_sentiment", "Negative"))
        negative_rate == rate_or_na(negative, Len(agent_interactions))
    IN  IF resolution = ZeroDivisionError
        THEN [no_output EXCEPT !.metrics = <<rating, tenure>>,
                               !.exception = ZeroDivisionError]
        ELSE IF negative_rate = ZeroDivisionError
        THEN [no_output EXCEPT
                !.metrics = <<rating, tenure,
                              [name |-> "Resolution Rate", value |-> resolution]>>,
                !.exception = ZeroDivisionError]
        ELSE [no_output EXCEPT
                !.metrics = <<rating, tenure,
                              [name |-> "Resolution Rate", value |-> resolution],
                              [name |-> "Negative Sentiment", value |-> negative_rate]>>,
                !.shown = IF Len(agent_interactions) > 0
                          THEN {}
                          ELSE {"No interactions found for this agent."}]

-----------------------------------------------------------------------------
(* Coaching Hub, lines 271-333.                                            *)

\* Faulty variant: an agent is flagged only when both thresholds are crossed.
coaching_entry_both(agent, interactions_df_) ==
    LET agent_ints == rows_where(interactions_df_, "agent_name", agent.name)
    IN  IF Len(agent_ints) > 0
        THEN LET negative_pct ==
                     truediv(Len(rows_where(agent_ints, "customer_sentiment", "Negative")),
                             Len(agent_ints))
                 resolution_rate ==
                     truediv(Len(rows_where(agent_ints, "resolution_status", "Resolved")),
                             Len(agent_ints))
             IN  IF rate_gt(negative_pct, 2, 10) /\ rate_lt(resolution_rate, 6, 10)
                 THEN << [agent |-> agent.name,
                          negative_rate |-> format_pct(negative_pct),
                          resolution_rate |-> format_pct(resolution_rate),
                          priority |-> IF rate_gt(negative_pct, 3, 10)
                                       THEN "High" ELSE "Medium"] >>
                 ELSE <<>>
        ELSE <<>>

\* the body of the loop of lines 279-291 for one roster row: <<>> when nothing
\* is appended, <<entry>> when a candidate is appended
coaching_entry(agent, interactions_df_) ==
    LET agent_ints == rows_where(interactions_df_, "agent_name", agent.name)
    IN  IF Len(agent_ints) > 0
        THEN LET negative_pct ==
                     truediv(Len(rows_where(agent_ints, "customer_sentiment", "Negative")),
                             Len(agent_ints))
                 resolution_rate ==
                     truediv(Len(rows_where(agent_ints, "resolution_status", "Resolved")),
                             Len(agent_ints))
             IN  IF rate_gt(negative_pct, 2, 10) \/ rate_lt(resolution_rate, 6, 10)
                 THEN << [agent |-> agent.name,
                          negative_rate |-> format_pct(negative_pct),
                          resolution_rate |-> format_pct(resolution_rate),
                          priority |-> IF rate_gt(negative_pct, 3, 10)
                                       THEN "High" ELSE "Medium"] >>
                 ELSE <<>>
        ELSE <<>>

RECURSIVE coaching_loop(_, _)
\* the loop of lines 278-291 over the roster rows still to visit
coaching_loop(rows, interactions_df_) ==
    IF rows = <<>> THEN <<>>
    ELSE coaching_entry(Head(rows), interactions_df_)
         \o coaching_loop(Tail(rows), interactions_df_)

GenerateButton == "Generate Coaching Plan"

NoOpportunities ==
    "No critical coaching opportunities identified. Team performance is within expected parameters."

\* the option the selectbox "Select Agent to Coach" returns: the wanted one
\* when it is offered, else the first
select_agent_to_coach(candidates, wanted) ==
    IF \E i \in DOMAIN candidates : candidates[i].agent = wanted
    THEN wanted
    ELSE candidates[1].agent

coaching_hub(agents_df_, interactions_df_, selected_agent_, clicked_) ==
    LET candidates == coaching_loop(agents_df_, interactions_df_)
    IN  IF candidates # <<>>
        THEN [no_output EXCEPT
                !.coaching_candidates = candidates,
                !.buttons = {GenerateButton},
                !.shown = IF st_button(GenerateButton, clicked_)
                          THEN {"Coaching Plan for " \o
                                select_agent_to_coach(candidates, selected_agent_)}
                          ELSE {}]
        ELSE [no_output EXCEPT !.shown = {NoOpportunities}]

-----------------------------------------------------------------------------
(* main, lines 100-333: one run of the script.  Streamlit runs it once per *)
(* user interaction, with the widgets returning their current values and   *)
(* at most one button returning True.  A widget the run does not reach     *)
(* loses its value.                                                        *)

Views == {"Dashboard", "Interaction Analysis", "Agent Performance", "Coaching Hub"}

\* the branch of lines 113, 161, 224, 271 for the chosen view
view_output(mode, agents_df_, interactions_df_, interaction_type_, transcript_, agent_name_, selected_agent_, clicked_) ==
    CASE mode = "Dashboard" ->
            dashboard(agents_df_, interactions_df_)
      [] mode = "Interaction Analysis" ->
            interaction_analysis(interaction_type_, transcript_, agent_name_, clicked_)
      [] mode = "Agent Performance" ->
            agent_performance(agents_df_, interactions_df_, selected_agent_)
      [] mode = "Coaching Hub" ->
            coaching_hub(agents_df_, interactions_df_, selected_agent_, clicked_)

main(mode, interaction_type_, transcript_, agent_name_, selected_agent_, clicked_) ==
    \E ret \in load_sample_data :
      \E out \in { view_output(mode, ret.agents, ret.interactions, interaction_type_,
                               transcript_, agent_name_, selected_agent_, clicked_) } :
        LET analysing == mode = "Interaction Analysis"
        IN  /\ cache' = <<ret>>
            /\ agents_df' = ret.agents
            /\ interactions_df' = ret.interactions
            /\ app_mode' = mode
            /\ interaction_type' = IF analysing THEN interaction_type_ ELSE ""
            /\ transcript' = IF analysing THEN transcript_ ELSE <<>>
            /\ agent_name' = IF analysing THEN agent_name_ ELSE ""
            /\ selected_agent' =
                 CASE mode = "Agent Performance" -> selected_agent_
                   [] mode = "Coaching Hub" /\ out.coaching_candidates # <<>> ->
                        select_agent_to_coach(out.coaching_candidates, selected_agent_)
                   [] OTHER -> ""
            /\ clicked' = clicked_
            /\ buttons' = out.buttons
            /\ shown' = out.shown
            /\ analysis' = out.analysis
            /\ metrics' = out.metrics
            /\ coaching_candidates' = out.coaching_candidates
            /\ exception' = out.exception

-----------------------------------------------------------------------------
(* The user's interactions, each followed by one run of main.              *)

\* what the user may type over the sample transcript
TypedTranscripts == { <<>>, <<"T","h","a","n","k"," ","y","o","u">> }

\* the first option of a selectbox is its value until the user picks another
DefaultInteractionType == "Call"

DefaultAgent == agents[1].name

AgentNames == { agents[i].name : i \in DOMAIN agents }

session_open == app_mode \in Views

\* a browser opens the app: the script's first run in a session
OpenApp ==
    /\ TRUE
    /\ main("Dashboard", "", <<>>, "", "", "None")

\* a run with nothing changed
Rerun ==
    /\ session_open
    /\ main(app_mode, interaction_type, transcript, agent_name, selected_agent, "None")

\* the two selectboxes labelled "Select Agent" list the same options; whether the
\* choice made in one view is found again in the other is left open
ChooseView(mode) ==
    /\ session_open
    /\ mode # app_mode
    /\ \E carried \in {DefaultAgent} \cup
                      ({agent_name, selected_agent} \cap
                       (IF app_mode \in {"Interaction Analysis", "Agent Performance"}
                        THEN AgentNames ELSE {})) :
          main(mode, DefaultInteractionType, sample_interactions[DefaultInteractionType],
               carried, IF mode = "Agent Performance" THEN carried ELSE "", "None")

\* a new interaction type gives the text area a new default, which replaces its text
SelectInteractionType(t) ==
    /\ app_mode = "Interaction Analysis"
    /\ t # interaction_type
    /\ main(app_mode, t, sample_interactions[t], agent_name, selected_agent, "None")

EditTranscript(text) ==
    /\ app_mode = "Interaction Analysis"
    /\ text # transcript
    /\ main(app_mode, interaction_type, text, agent_name, selected_agent, "None")

\* the options of the agent selectbox of the current view: the roster names
\* (lines 180 and 228) or the candidates' names (line 298)
agent_options ==
    IF app_mode = "Coaching Hub"
    THEN { coaching_candidates[i].agent : i \in DOMAIN coaching_candidates }
    ELSE IF app_mode \in {"Interaction Analysis", "Agent Performance"}
    THEN AgentNames
    ELSE {}

\* the user picks another option in the agent selectbox of the current view
PickAgent(a) ==
    /\ a \in agent_options
    /\ a # (IF app_mode = "Interaction Analysis" THEN agent_name ELSE selected_agent)
    /\ main(app_mode, interaction_type, transcript,
            IF app_mode = "Interaction Analysis" THEN a ELSE agent_name,
            IF app_mode = "Interaction Analysis" THEN selected_agent ELSE a,
            "None")

ClickAnalyze ==
    /\ AnalyzeButton \in buttons
    /\ main(app_mode, interaction_type, transcript, agent_name, selected_agent, AnalyzeButton)

\* a click on one of the three buttons below the feedback, when the page shows them
ClickNextStep(b) ==
    /\ b \in buttons
    /\ main(app_mode, interaction_type, transcript, agent_name, selected_agent, b)

ClickGenerate ==
    /\ GenerateButton \in buttons
    /\ main(app_mode, interaction_type, transcript, agent_name, selected_agent, GenerateButton)

\* no browser has opened the app yet
no_session ==
    /\ agents_df = <<>>
    /\ interactions_df = <<>>
    /\ app_mode = ""
    /\ interaction_type = ""
    /\ transcript = <<>>
    /\ agent_name = ""
    /\ selected_agent = ""
    /\ clicked = "None"
    /\ buttons = {}
    /\ shown = {}
    /\ analysis = <<>>
    /\ metrics = <<>>
    /\ coaching_candidates = <<>>
    /\ exception = <<>>

\* the process has started: nothing is cached
Init ==
    /\ cache = <<>>
    /\ no_session

Next ==
    \/ OpenApp
    \/ Rerun
    \/ \E mode \in Views : ChooseView(mode)
    \/ \E t \in InteractionTypes : SelectInteractionType(t)
    \/ \E text \in TypedTranscripts : EditTranscript(text)
    \/ \E a \in AgentNames : PickAgent(a)
    \/ ClickAnalyze
    \/ \E b \in NextStepButtons : ClickNextStep(b)
    \/ ClickGenerate

\* the application
Spec == Init /\ [][Next]_vars

-----------------------------------------------------------------------------
(* The generator on its own: every kind of run that calls it (a session   *)
(* opening, a rerun, a view change, a click), the widgets left as they     *)
(* come.                                                                   *)

NextGenerator ==
    \/ OpenApp
    \/ Rerun
    \/ \E mode \in Views : ChooseView(mode)
    \/ ClickAnalyze
    \/ \E b \in NextStepButtons : ClickNextStep(b)
    \/ ClickGenerate

SpecGenerator == Init /\ [][NextGenerator]_vars

-----------------------------------------------------------------------------
(* The aggregator on its own: the three views that compute statistics, on  *)
(* interaction tables larger than the scaled-down generator returns.  The  *)
(* views count rows, so one table is taken per multiset of rows.           *)

\* the (sentiment, status) pairs a row can hold, in a fixed order
RowKinds ==
    << <<"Positive", "Resolved">>, <<"Positive", "Escalated">>, <<"Positive", "Pending">>,
       <<"Neutral", "Resolved">>, <<"Neutral", "Escalated">>, <<"Neutral", "Pending">>,
       <<"Negative", "Resolved">>, <<"Negative", "Escalated">>, <<"Negative", "Pending">> >>

RECURSIVE NonDecreasing(_, _)
\* the non-decreasing sequences of n indices of RowKinds, none below lo
NonDecreasing(n, lo) ==
    IF n = 0 THEN {<<>>}
    ELSE UNION { { <<k>> \o s : s \in NonDecreasing(n - 1, k) } : k \in lo..Len(RowKinds) }

\* the table whose k-th row belongs to roster row owner[k] and is of kind kinds[k]
table(owner, kinds) ==
    [k \in 1..Len(kinds) |->
        interaction(k - 1, agents[owner[k]], RowKinds[kinds[k]][1], RowKinds[kinds[k]][2])]

\* all rows with one agent, or one row each for two agents
AggregatorTables ==
    { table([k \in 1..Len(kinds) |-> a], kinds) :
        a \in DOMAIN agents, kinds \in UNION { NonDecreasing(n, 1) : n \in 1..MaxRows } }
    \cup
    { table(<<ab[1], ab[2]>>, <<kk[1], kk[2]>>) :
        ab \in { p \in (DOMAIN agents) \X (DOMAIN agents) : p[1] # p[2] },
        kk \in (DOMAIN RowKinds) \X (DOMAIN RowKinds) }

InitAggregator ==
    /\ \E t \in AggregatorTables : cache = << [agents |-> agents, interactions |-> t] >>
    /\ no_session

NextAggregator ==
    \/ OpenApp
    \/ \E mode \in Views \ {"Interaction Analysis"} : ChooseView(mode)
    \/ \E a \in AgentNames : PickAgent(a)
    \/ ClickGenerate

SpecAggregator == InitAggregator /\ [][NextAggregator]_vars

-----------------------------------------------------------------------------
(* The classifier on its own, on transcripts put together from fragments.  *)

Fragments ==
    { <<"f","r","u","s","t","r","a","t">>,
      <<"a","n","g","r","y">>,
      <<"u","p","s","e","t">>,
      <<"d","i","s","a","p","p","o","i","n","t">>,
      <<"u","n","f","a","i","r">>,
      <<"c","o","m","p","l","a","i","n","t">>,
      <<"t","h","a","n","k">>,
      <<"a","p","p","r","e","c","i","a","t","e">>,
      <<"h","e","l","p","f","u","l">>,
      <<"g","r","e","a","t">>,
      <<"p","e","r","f","e","c","t">>,
      <<"a","w","e","s","o","m","e">>,
      <<"U","n","f","a","i","r">>,
      <<"T","H","A","N","K">>,
      <<"u","n">>,
      <<"f","a","i","r">>,
      <<" ">>,
      <<"o","k">> }

RECURSIVE Transcripts(_)
\* the concatenations of at most n fragments
Transcripts(n) ==
    IF n = 0 THEN {<<>>}
    ELSE Transcripts(n - 1) \cup { t \o f : t \in Transcripts(n - 1), f \in Fragments }

InitClassifier ==
    /\ cache = <<>>
    /\ agents_df = <<>>
    /\ interactions_df = <<>>
    /\ app_mode = "Interaction Analysis"
    /\ interaction_type \in InteractionTypes
    /\ transcript \in Transcripts(MaxFragments)
    /\ agent_name \in AgentNames
    /\ selected_agent = ""
    /\ clicked = "None"
    /\ buttons = {}
    /\ shown = {}
    /\ analysis = <<>>
    /\ metrics = <<>>
    /\ coaching_candidates = <<>>
    /\ exception = <<>>

\* the call of line 185 alone
Classify ==
    /\ analysis = <<>>
    /\ analysis' = <<simulate_ai_analysis(transcript, interaction_type, agent_name)>>
    /\ UNCHANGED <<cache, agents_df, interactions_df, app_mode, interaction_type,
                   transcript, agent_name, selected_agent, clicked, buttons, shown,
                   metrics, coaching_candidates, exception>>

SpecClassifier == InitClassifier /\ [][Classify]_vars

-----------------------------------------------------------------------------
(* Properties.                                                             *)

\* word occurs in text: some slice of text equals word
Contains(text, word) ==
    \E i \in 0..Len(text) : \E j \in i..Len(text) : SubSeq(text, i + 1, j) = word

ContainsAny(text, words) == \E k \in DOMAIN words : Contains(text, words[k])

HasNegativeWord == ContainsAny(str_lower(transcript), negative_words)

HasPositiveWord == ContainsAny(str_lower(transcript), positive_words)

classified == analysis # <<>>

\* C1: a transcript whose lower-cased text holds a negative-affect keyword is
\* classified Negative, whatever its letter case and whatever else it holds,
\* a positive-affect keyword included.
C1_NegativeKeywordGivesNegative ==
    (classified /\ HasNegativeWord) => analysis[1].sentiment = "Negative"

\* C1 happens: a transcript with capitals, a negative and a positive keyword
\* has been classified Negative.
C1_Witness ==
    /\ classified
    /\ HasNegativeWord
    /\ HasPositiveWord
    /\ transcript # str_lower(transcript)
    /\ analysis[1].sentiment = "Negative"

\* C2: a transcript whose lower-cased text holds a positive-affect keyword and
\* no negative-affect keyword is classified Positive.
C2_PositiveKeywordGivesPositive ==
    (classified /\ HasPositiveWord /\ ~HasNegativeWord)
        => analysis[1].sentiment = "Positive"

\* C2 happens: a positive keyword typed in capitals, no negative keyword,
\* classified Positive.
C2_Witness ==
    /\ classified
    /\ HasPositiveWord
    /\ ~HasNegativeWord
    /\ ~ContainsAny(transcript, positive_words)
    /\ analysis[1].sentiment = "Positive"

\* C3: a transcript with neither kind of keyword, the empty one included, is
\* classified Neutral, and every classification is one of the three labels.
C3_OtherwiseNeutral ==
    classified =>
        /\ analysis[1].sentiment \in {"Negative", "Positive", "Neutral"}
        /\ (~HasNegativeWord /\ ~HasPositiveWord) => analysis[1].sentiment = "Neutral"

\* C3 happens: the empty transcript has been classified Neutral.
C3_Witness ==
    /\ classified
    /\ transcript = <<>>
    /\ analysis[1].sentiment = "Neutral"

\* the template part of a result: what the label is said to determine
TemplateOf(r) ==
    <<r.strengths, r.issues, r.feedback.strengths, r.feedback.issues,
      r.feedback.coaching_focus, r.feedback.example_phrase>>

\* C4: strengths, issues, coaching focus and example phrase are determined by
\* the label: the result for the transcript at hand and the result for any
\* other transcript with the same label carry the same four, and a Negative
\* result carries the three strengths and the coaching focus quoted.
C4_TemplateDeterminedByLabel ==
    classified =>
        /\ \A other \in Transcripts(1) :
              LET r == simulate_ai_analysis(other, interaction_type, agent_name)
              IN  r.sentiment = analysis[1].sentiment
                      => TemplateOf(r) = TemplateOf(analysis[1])
        /\ analysis[1].sentiment = "Negative" =>
              /\ analysis[1].strengths = <<"Professional tone maintained",
                                           "Accurate information provided",
                                           "Good product knowledge">>
              /\ analysis[1].feedback.coaching_focus =
                    "Practice empathy statements and de-escalation techniques"

\* C4 happens: a Negative result for a transcript that is not a single
\* fragment, so it is compared with results for other transcripts.
C4_Witness ==
    /\ classified
    /\ analysis[1].sentiment = "Negative"
    /\ transcript \notin Transcripts(1)
    /\ HasPositiveWord

\* C9: interaction type and agent name are echoed into the feedback and decide
\* nothing: with the transcript fixed, every choice of the two gives the same
\* sentiment, strengths and issues.
C9_LabelsDoNotDecide ==
    classified =>
        /\ analysis[1].feedback.agent = agent_name
        /\ analysis[1].feedback.interaction_type = interaction_type
        /\ \A t \in InteractionTypes, a \in AgentNames :
              LET r == simulate_ai_analysis(transcript, t, a)
              IN  /\ r.sentiment = analysis[1].sentiment
                  /\ r.strengths = analysis[1].strengths
                  /\ r.issues = analysis[1].issues

\* C9 happens: an e-mail handled by the last agent of the roster has been
\* classified Positive.
C9_Witness ==
    /\ classified
    /\ interaction_type = "Email"
    /\ agent_name = agents[Len(agents)].name
    /\ analysis[1].sentiment = "Positive"

\* the size of the roster of lines 71-77
RosterSize == 5

loaded == agents_df # <<>>

\* C5: whatever the random draws, a loaded batch has exactly the generated
\* number of interactions (NumInteractions stands for the 50 of line 80) and
\* every interaction's agent_id is the id of a member of the 5-agent roster
\* returned with it.
C5_BatchShape ==
    loaded =>
        /\ Len(interactions_df) = NumInteractions
        /\ Len(agents_df) = RosterSize
        /\ \A i \in DOMAIN interactions_df :
              \E j \in DOMAIN agents_df :
                  /\ interactions_df[i].agent_id = agents_df[j].id
                  /\ interactions_df[i].agent_name = agents_df[j].name

\* C5 happens: a batch has been loaded whose last row belongs to the last
\* member of the roster.
C5_Witness ==
    /\ loaded
    /\ interactions_df[Len(interactions_df)].agent_id = agents_df[RosterSize].id

\* the numbers of rows of agent a: all, Negative, Resolved
RowsOf(a) == { i \in DOMAIN interactions_df : interactions_df[i].agent_id = a.id }

NegativeOf(a) ==
    { i \in RowsOf(a) : interactions_df[i].customer_sentiment = "Negative" }

ResolvedOf(a) ==
    { i \in RowsOf(a) : interactions_df[i].resolution_status = "Resolved" }

EntriesOf(a) ==
    { i \in DOMAIN coaching_candidates : coaching_candidates[i].agent = a.name }

\* negative rate > pct/100 and resolution rate < pct/100, in integers
NegativeRateAbove(a, pct) ==
    100 * Cardinality(NegativeOf(a)) > pct * Cardinality(RowsOf(a))

ResolutionRateBelow(a, pct) ==
    100 * Cardinality(ResolvedOf(a)) < pct * Cardinality(RowsOf(a))

\* C6: in the Coaching Hub an agent with at least one interaction is listed
\* (once) exactly when its negative rate is above 0.20 or its resolution rate
\* below 0.60, with priority High when its negative rate is above 0.30 and
\* Medium otherwise.
C6_CoachingCandidates ==
    app_mode = "Coaching Hub" =>
        \A k \in DOMAIN agents_df :
            LET a == agents_df[k]
            IN  RowsOf(a) # {} =>
                  /\ EntriesOf(a) # {}
                        <=> (NegativeRateAbove(a, 20) \/ ResolutionRateBelow(a, 60))
                  /\ Cardinality(EntriesOf(a)) <= 1
                  /\ \A i \in EntriesOf(a) :
                        coaching_candidates[i].priority =
                            IF NegativeRateAbove(a, 30) THEN "High" ELSE "Medium"

\* C6 happens: the Coaching Hub lists an agent at Medium priority for its
\* negative rate alone (above 0.20, not above 0.30, resolution rate not low).
C6_Witness ==
    /\ app_mode = "Coaching Hub"
    /\ \E k \in DOMAIN agents_df :
          LET a == agents_df[k]
          IN  /\ NegativeRateAbove(a, 20)
              /\ ~NegativeRateAbove(a, 30)
              /\ ~ResolutionRateBelow(a, 60)
              /\ \E i \in EntriesOf(a) : coaching_candidates[i].priority = "Medium"

\* a displayed percentage between 0.0% and 100.0%
IsPercentage(v) == Len(v) = 2 /\ v[1] = "%" /\ v[2] \in 0..1000

RateMetrics ==
    { i \in DOMAIN metrics : metrics[i].name \in {"Resolution Rate", "Negative Sentiment"} }

\* C7: no run ends in a division by zero; every rate shown lies between 0 and
\* 1 (0.0% to 100.0%); Agent Performance shows "N/A" for an agent with no
\* interactions and a rate otherwise; the Coaching Hub lists no agent with no
\* interactions; the Dashboard and the other two views show both rates.
C7_RatesGuarded ==
    /\ exception = <<>>
    /\ \A i \in RateMetrics : metrics[i].value = NA \/ IsPercentage(metrics[i].value)
    /\ app_mode = "Dashboard" =>
          /\ Cardinality(RateMetrics) = 2
          /\ \A i \in RateMetrics : IsPercentage(metrics[i].value)
    /\ app_mode = "Agent Performance" =>
          /\ Cardinality(RateMetrics) = 2
          /\ \A i \in RateMetrics :
                metrics[i].value = NA
                    <=> (\A r \in DOMAIN interactions_df :
                            interactions_df[r].agent_name # selected_agent)
    /\ \A i \in DOMAIN coaching_candidates :
          /\ IsPercentage(coaching_candidates[i].negative_rate)
          /\ IsPercentage(coaching_candidates[i].resolution_rate)
          /\ \E r \in DOMAIN interactions_df :
                interactions_df[r].agent_name = coaching_candidates[i].agent

\* C7 happens: Agent Performance shows "N/A" twice for an agent with no
\* interactions, without an exception.
C7_Witness ==
    /\ app_mode = "Agent Performance"
    /\ exception = <<>>
    /\ Cardinality(RateMetrics) = 2
    /\ \A i \in RateMetrics : metrics[i].value = NA

\* C8: once load_sample_data has been called, every later run (a rerun, a
\* view change, a click, a classifier run) gets the same roster and the same
\* interactions, and the cached pair stays as it is.
C8_SameBatchEveryRun ==
    [][loaded => (/\ agents_df' = agents_df
                  /\ interactions_df' = interactions_df
                  /\ cache' = cache)]_vars

\* C8 happens: a run triggered by a click on "Analyze Interaction" has called
\* load_sample_data again and holds the cached batch.
C8_Witness ==
    /\ clicked = AnalyzeButton
    /\ classified
    /\ cache = << [agents |-> agents_df, interactions |-> interactions_df] >>

\* what a session keeps between runs, with the cached batch
stored == <<cache, agents_df, interactions_df, app_mode, interaction_type,
            transcript, agent_name, selected_agent>>

\* C10: the run triggered by a click on "Save Feedback", "Schedule Coaching
\* Session" or "Create Action Plan" shows that button's success message and
\* leaves the cached batch and the session's stored state as they were.
C10_NextStepAcknowledged ==
    [][(clicked' \in NextStepButtons /\ \E b \in NextStepButtons : ClickNextStep(b))
          => (/\ NextStepMessage[clicked'] \in shown'
              /\ stored' = stored)]_vars

\* the second half of C10 alone: such a click changes nothing that is stored
C10_NextStepStoresNothing ==
    [][(clicked' \in NextStepButtons /\ \E b \in NextStepButtons : ClickNextStep(b))
          => stored' = stored]_vars

\* the three buttons are on the page and can be clicked
C10_Witness ==
    /\ classified
    /\ NextStepButtons \subseteq buttons
=============================================================================
